---- MODULE Spec2Model ----
(***************************************************************************)
(* Model of image/decoders/nsJXLRustDecoder.{h,cpp}: the streaming driver  *)
(* that feeds chunks of an encoded image to the JXL engine, announces the  *)
(* image size, extracts the frame and writes its rows to a surface pipe.   *)
(*                                                                         *)
(* The driver object is the record drv.  Every call the driver makes on a  *)
(* collaborator (engine, surface pipe, Decoder base class) is appended to  *)
(* drv.trace, in program order, together with what the collaborator        *)
(* answered.  The collaborators' answers are the inputs of the model: the  *)
(* record e handed to ReadJXLData holds the answers of one invocation.     *)
(***************************************************************************)
EXTENDS Integers, Sequences, FiniteSets, TLC

\* Longest encoded stream, in bytes.
MaxStream == 3
\* Largest image width and height, in pixels.
MaxDim == 2

VARIABLES
  drv,       \* the nsJXLRustDecoder object and the log of its calls
  pc,        \* "idle" | "lex" (inside DoDecode) | "done" | "aborted" | "destroyed"
  written,   \* bytes the source has received so far
  consumed,  \* bytes the lexer has handed to ReadJXLData
  complete,  \* the source has signalled end of stream
  total,     \* length of the encoded stream
  img,       \* SpecStream: layout of the encoded image the engine parses
  eng,       \* SpecStream: state of the engine
  px         \* SpecPixels: the sizing of the pixel buffer

vars == <<drv, pc, written, consumed, complete, total, img, eng, px>>

None == <<>>
Sizes == (1..MaxDim) \X (1..MaxDim)
MaxPixels == MaxDim * MaxDim
B2I(b) == IF b THEN 1 ELSE 0

\* One logged call: op is the callee, s its status answer, n1..n4 its
\* integer arguments or answers, span the bytes passed to the engine.
Ev(op, s, n1, n2, n3, n4) ==
  [op |-> op, s |-> s, n1 |-> n1, n2 |-> n2, n3 |-> n3, n4 |-> n4, span |-> <<>>]

Log(d, ev) == [d EXCEPT !.trace = Append(@, ev)]

\* A LexerTransition: "continue" is ContinueUnbuffered(State::JXL_DATA),
\* "success"/"failure" are the terminal transitions.  "abort" is the process
\* dying on a failed assertion.
Terminate(d, t) == [d EXCEPT !.transition = t]

(***************************************************************************)
(* Decoder base class, as far as the driver uses it.                       *)
(***************************************************************************)
HasSize(d) == d.hasSize

IsMetadataDecode(d) == d.metadataDecode

\* PostSize records the intrinsic size, defaults the output size to it when
\* the caller requested none, and notifies the observer.
PostSize(d, w, h) ==
  Log([d EXCEPT !.hasSize = TRUE,
                !.mOutputSize = IF @ = None THEN <<w, h>> ELSE @],
      Ev("PostSize", "", w, h, 0, 0))

PostInvalidation(d) == Log(d, Ev("PostInvalidation", "", 0, 0, 0, 0))

PostFrameStop(d) == Log(d, Ev("PostFrameStop", "", 0, 0, 0, 0))

PostDecodeDone(d) == Log(d, Ev("PostDecodeDone", "", 0, 0, 0, 0))

\* OutputSize() requires HasSize().  Called without a size it either dies on
\* the assertion (e.ub = None) or yields whatever the optional holds: the
\* requested size when one was set, otherwise an arbitrary value e.ub.
OutputSizeAborts(d, e) == ~HasSize(d) /\ e.ub = None

OutputSize(d, e) ==
  IF d.mOutputSize # None THEN d.mOutputSize ELSE e.ub

(***************************************************************************)
(* nsJXLRustDecoder::ReadJXLData                                           *)
(***************************************************************************)

\* InputSpan without the accumulation: only the new chunk is passed on.
InputSpanNewChunkOnly(d, aData) == aData

\* Lines 67-77: the bytes handed to jxl_rust_decoder_process_data.
InputSpan(d, aData) ==
  IF Len(d.mBuffer) # 0 THEN d.mBuffer \o aData ELSE aData

\* ShouldPostSize without the HasSize() test.
ShouldPostSizeWheneverInfo(d, e) == e.infoStatus = "OK"

\* Line 90: the size is recorded and announced only the first time.
ShouldPostSize(d, e) == e.infoStatus = "OK" /\ ~HasSize(d)

\* The four bytes of a non-negative int32_t, least significant first.
Bytes32(n) ==
  <<n % 256, (n \div 256) % 256, (n \div 65536) % 256, n \div 16777216>>

\* Column k (from 0) of the long multiplication of two four-byte numbers.
RECURSIVE ColumnSum(_, _, _, _)
ColumnSum(a, b, k, i) ==
  IF i > 4 THEN 0
  ELSE (IF k + 2 - i \in 1..4 THEN a[i] * b[k + 2 - i] ELSE 0)
       + ColumnSum(a, b, k, i + 1)

RECURSIVE ProductBytes(_, _, _, _)
ProductBytes(a, b, k, carry) ==
  IF k > 7 THEN <<>>
  ELSE LET c == ColumnSum(a, b, k, 1) + carry
       IN <<c % 256>> \o ProductBytes(a, b, k + 1, c \div 256)

\* The mathematical product of two non-negative int32_t, as the eight bytes
\* of a 64-bit number, least significant first.
ExactProduct(w, h) == ProductBytes(Bytes32(w), Bytes32(h), 0, 0)

\* The 64-bit number is a non-negative int.
FitsInt32(p) == p[4] < 128 /\ \A i \in 5..8 : p[i] = 0

\* The product kept to 32 bits as an int and converted to size_t, which
\* extends its sign.
WrappedProduct(p) ==
  [i \in 1..8 |-> IF i <= 4 THEN p[i] ELSE IF p[4] >= 128 THEN 255 ELSE 0]

\* Line 120 as the eight bytes of the size_t.  The operands are int32_t and
\* the multiplication is done in int; when the product does not fit, the
\* behaviour is undefined and a build either multiplies in 32 bits and
\* sign-extends the result (wide = FALSE) or multiplies the sign-extended
\* operands in 64 bits (wide = TRUE).
PixelCountBytes(outputSize, wide) ==
  LET p == ExactProduct(outputSize[1], outputSize[2])
  IN IF FitsInt32(p) \/ wide THEN p ELSE WrappedProduct(p)

\* Line 120: size_t pixelCount = outputSize.width * outputSize.height, for
\* the sizes up to MaxDim of Spec and SpecStream, whose product fits an int:
\* PixelCountBytes(outputSize, wide) is this product, in bytes.
PixelCount(outputSize) == outputSize[1] * outputSize[2]

\* Line 133, negated: the frame is accepted.  df is the engine's answer to
\* decode_frame: its status and the pixelsWritten it reported.
FrameDecoded(df, pixelCount) ==
  df.status = "OK" /\ df.pixelsWritten = pixelCount

\* WriteRows that does not test the result of WriteBuffer.
RECURSIVE WriteRowsUnchecked(_, _, _, _, _)
WriteRowsUnchecked(d, y, offset, outputSize, e) ==
  IF y >= outputSize[2] THEN d
  ELSE LET failed == e.failRow = y + 1
           d1 == Log(d, Ev("WriteBuffer", IF failed THEN "FAILURE" ELSE "OK",
                           y, offset, outputSize[1], 0))
       IN WriteRowsUnchecked(d1, y + 1, offset + outputSize[1], outputSize, e)

\* Lines 138-145: one WriteBuffer per row, stopping at the first failure.
\* y is the row index, offset is currentRow - pixelBuffer.begin().
RECURSIVE WriteRows(_, _, _, _, _)
WriteRows(d, y, offset, outputSize, e) ==
  IF y >= outputSize[2] THEN d
  ELSE LET failed == e.failRow = y + 1
           d1 == Log(d, Ev("WriteBuffer", IF failed THEN "FAILURE" ELSE "OK",
                           y, offset, outputSize[1], 0))
       IN IF failed THEN Terminate(d1, "failure")
          ELSE WriteRows(d1, y + 1, offset + outputSize[1], outputSize, e)

\* Lines 147-154: after the rows.
FinishFrame(d, e) ==
  LET d1 == Log(d, Ev("TakeInvalidRect", "", B2I(e.invalidRect), 0, 0, 0))
      d2 == IF e.invalidRect THEN PostInvalidation(d1) ELSE d1
  IN Terminate(PostDecodeDone(PostFrameStop(d2)), "success")

\* ExtractFrame that goes back to the lexer for more input when decode_frame
\* does not deliver the frame.
ExtractFrameRetries(d, e) ==
  IF OutputSizeAborts(d, e)
    THEN Terminate(Log(d, Ev("OutputSize", "ABORT", 0, 0, 0, 0)), "abort")
  ELSE
    LET outputSize == OutputSize(d, e)
        d0 == Log(d, Ev("OutputSize", "", outputSize[1], outputSize[2], 0, 0))
        d1 == Log(d0, Ev("CreateSurfacePipe", IF e.pipeOK THEN "OK" ELSE "FAILURE",
                        outputSize[1], outputSize[2], outputSize[1], outputSize[2]))
        pixelCount == PixelCount(outputSize)
        d2 == Log(d1, Ev("resize", IF e.resizeOK THEN "OK" ELSE "FAILURE",
                         pixelCount, 0, 0, 0))
        df == e.decode[pixelCount]
        d3 == Log(d2, Ev("decode_frame", df.status, pixelCount, df.pixelsWritten, 0, 0))
        d4 == WriteRows(d3, 0, 0, outputSize, e)
    IN IF ~e.pipeOK THEN Terminate(d1, "failure")
       ELSE IF ~e.resizeOK THEN Terminate(d2, "failure")
       ELSE IF ~FrameDecoded(df, pixelCount) THEN Terminate(d3, "continue")
       ELSE IF d4.transition = "failure" THEN d4
       ELSE FinishFrame(d4, e)

\* ExtractFrame that carries on after a failed pixel-buffer allocation.
ExtractFrameIgnoresResize(d, e) ==
  IF OutputSizeAborts(d, e)
    THEN Terminate(Log(d, Ev("OutputSize", "ABORT", 0, 0, 0, 0)), "abort")
  ELSE
    LET outputSize == OutputSize(d, e)
        d0 == Log(d, Ev("OutputSize", "", outputSize[1], outputSize[2], 0, 0))
        d1 == Log(d0, Ev("CreateSurfacePipe", IF e.pipeOK THEN "OK" ELSE "FAILURE",
                        outputSize[1], outputSize[2], outputSize[1], outputSize[2]))
        pixelCount == PixelCount(outputSize)
        d2 == Log(d1, Ev("resize", IF e.resizeOK THEN "OK" ELSE "FAILURE",
                         pixelCount, 0, 0, 0))
        df == e.decode[pixelCount]
        d3 == Log(d2, Ev("decode_frame", df.status, pixelCount, df.pixelsWritten, 0, 0))
        d4 == WriteRows(d3, 0, 0, outputSize, e)
    IN IF ~e.pipeOK THEN Terminate(d1, "failure")
       ELSE IF ~FrameDecoded(df, pixelCount) THEN Terminate(d3, "failure")
       ELSE IF d4.transition = "failure" THEN d4
       ELSE FinishFrame(d4, e)

\* Lines 101-154: the body of `if (jxl_rust_decoder_is_frame_ready(...))`.
ExtractFrame(d, e) ==
  IF OutputSizeAborts(d, e)
    THEN Terminate(Log(d, Ev("OutputSize", "ABORT", 0, 0, 0, 0)), "abort")
  ELSE
    LET outputSize == OutputSize(d, e)
        d0 == Log(d, Ev("OutputSize", "", outputSize[1], outputSize[2], 0, 0))
        d1 == Log(d0, Ev("CreateSurfacePipe", IF e.pipeOK THEN "OK" ELSE "FAILURE",
                        outputSize[1], outputSize[2], outputSize[1], outputSize[2]))
        pixelCount == PixelCount(outputSize)
        d2 == Log(d1, Ev("resize", IF e.resizeOK THEN "OK" ELSE "FAILURE",
                         pixelCount, 0, 0, 0))
        df == e.decode[pixelCount]
        d3 == Log(d2, Ev("decode_frame", df.status, pixelCount, df.pixelsWritten, 0, 0))
        d4 == WriteRows(d3, 0, 0, outputSize, e)
    IN IF ~e.pipeOK THEN Terminate(d1, "failure")
       ELSE IF ~e.resizeOK THEN Terminate(d2, "failure")
       ELSE IF ~FrameDecoded(df, pixelCount) THEN Terminate(d3, "failure")
       ELSE IF d4.transition = "failure" THEN d4
       ELSE FinishFrame(d4, e)

\* StatusOK that returns to the lexer once it has announced the size and
\* looks for the frame on the next chunk.
StatusOKSizeThenContinue(d, e) ==
  LET d1 == Log(d, Ev("get_info", e.infoStatus, 0, 0, 0, 0))
      post == ShouldPostSize(d1, e)
      d2 == IF post
              THEN PostSize([d1 EXCEPT !.mSize = e.info], e.info[1], e.info[2])
              ELSE d1
      d3 == Log(d2, Ev("is_frame_ready", "", B2I(e.frameReady), 0, 0, 0))
  IN IF post /\ IsMetadataDecode(d2) THEN Terminate(d2, "success")
     ELSE IF e.frameReady /\ ~post THEN ExtractFrame(d3, e)
     ELSE Terminate([d3 EXCEPT !.mBuffer = <<>>], "continue")

\* StatusOK without the mBuffer.clear() of line 158.
StatusOKKeepsBuffer(d, e) ==
  LET d1 == Log(d, Ev("get_info", e.infoStatus, 0, 0, 0, 0))
      post == ShouldPostSize(d1, e)
      d2 == IF post
              THEN PostSize([d1 EXCEPT !.mSize = e.info], e.info[1], e.info[2])
              ELSE d1
      d3 == Log(d2, Ev("is_frame_ready", "", B2I(e.frameReady), 0, 0, 0))
  IN IF post /\ IsMetadataDecode(d2) THEN Terminate(d2, "success")
     ELSE IF e.frameReady THEN ExtractFrame(d3, e)
     ELSE Terminate(d3, "continue")

\* Lines 84-162: case JXL_RUST_STATUS_OK.
StatusOK(d, e) ==
  LET d1 == Log(d, Ev("get_info", e.infoStatus, 0, 0, 0, 0))
      post == ShouldPostSize(d1, e)
      d2 == IF post
              THEN PostSize([d1 EXCEPT !.mSize = e.info], e.info[1], e.info[2])
              ELSE d1
      d3 == Log(d2, Ev("is_frame_ready", "", B2I(e.frameReady), 0, 0, 0))
  IN IF post /\ IsMetadataDecode(d2) THEN Terminate(d2, "success")
     ELSE IF e.frameReady THEN ExtractFrame(d3, e)
     ELSE Terminate([d3 EXCEPT !.mBuffer = <<>>], "continue")

\* StatusNeedMoreData that never starts buffering.
StatusNeedMoreDataNoBuffer(d, aData, e) == Terminate(d, "continue")

\* Lines 164-172: case JXL_RUST_STATUS_NEED_MORE_DATA.
StatusNeedMoreData(d, aData, e) ==
  IF Len(d.mBuffer) = 0 /\ Len(aData) > 0
    THEN IF e.appendOK
           THEN Terminate([d EXCEPT !.mBuffer = aData], "continue")
           ELSE Terminate(Log(d, Ev("append", "FAILURE", Len(aData), 0, 0, 0)), "failure")
    ELSE Terminate(d, "continue")

\* StatusSwitch with a default case that keeps reading.
StatusSwitchDefaultContinues(d, aData, e) ==
  CASE e.status = "OK" -> StatusOK(d, e)
    [] e.status = "NEED_MORE_DATA" -> StatusNeedMoreData(d, aData, e)
    [] e.status = "INVALID_DATA" -> Terminate(d, "failure")
    [] e.status = "ERROR" -> Terminate(d, "failure")
    [] OTHER -> Terminate(d, "continue")

\* Lines 83-182: the switch on the status of process_data.
StatusSwitch(d, aData, e) ==
  CASE e.status = "OK" -> StatusOK(d, e)
    [] e.status = "NEED_MORE_DATA" -> StatusNeedMoreData(d, aData, e)
    [] e.status = "INVALID_DATA" -> Terminate(d, "failure")
    [] e.status = "ERROR" -> Terminate(d, "failure")
    [] OTHER -> Terminate(d, "failure")

\* Lines 63-183.  The entry of the handler is logged with its chunk.
ReadJXLData(d, aData, e) ==
  LET d0 == Log(d, [Ev("ReadJXLData", "", Len(aData), 0, 0, 0) EXCEPT !.span = aData])
  IN IF Len(d.mBuffer) # 0 /\ ~e.appendOK
       THEN Terminate(Log(d0, Ev("append", "FAILURE", Len(aData), 0, 0, 0)), "failure")
     ELSE
       LET input == InputSpan(d0, aData)
           d1 == IF Len(d.mBuffer) # 0 THEN [d0 EXCEPT !.mBuffer = input] ELSE d0
           d2 == Log(d1, [Ev("process", e.status, Len(input), 0, 0, 0)
                            EXCEPT !.span = input])
       IN StatusSwitch(d2, aData, e)

\* Lines 185-188.
FinishedJXLData(d) == Terminate(d, "failure")

(***************************************************************************)
(* nsJXLRustDecoder construction, DoDecode and teardown                    *)
(***************************************************************************)

\* Lines 27-33 and the member declarations of the header: a fresh driver.
\* req is the output size the caller requested (None: the intrinsic size).
NewDecoder(meta, req) ==
  [mRustDecoder |-> FALSE, mBuffer |-> <<>>, mSize |-> <<0, 0>>,
   hasSize |-> FALSE, mOutputSize |-> req, metadataDecode |-> meta,
   trace |-> <<>>, transition |-> "continue"]

\* Line 31: the transition the lexer takes when the source ends.
TruncatedTransition == "success"

\* Line 30: the unbuffered read asks for SIZE_MAX bytes, more than any
\* stream holds.
UnbufferedSize == MaxStream + 1

BytesRemaining == UnbufferedSize - consumed

\* CreateEngine without the test for an existing engine.
CreateEngineEveryCall(d, newOK) ==
  LET d1 == Log(d, Ev("jxl_rust_decoder_new", "", B2I(newOK), 0, 0, 0))
  IN IF ~newOK THEN Terminate(d1, "failure")
     ELSE [d1 EXCEPT !.mRustDecoder = TRUE]

\* Lines 42-49: the engine is created on first use.
CreateEngine(d, newOK) ==
  IF ~d.mRustDecoder
    THEN LET d1 == Log(d, Ev("jxl_rust_decoder_new", "", B2I(newOK), 0, 0, 0))
         IN IF ~newOK THEN Terminate(d1, "failure")
            ELSE [d1 EXCEPT !.mRustDecoder = TRUE]
    ELSE d

\* Lines 52-59: the lexer's callback.
LexCallback(d, aState, aData, e) ==
  CASE aState = "JXL_DATA" -> ReadJXLData(d, aData, e)
    [] aState = "FINISHED_JXL_DATA" -> FinishedJXLData(d)

\* Lines 20-25, run by the UniquePtr member when the driver is destroyed.
JxlRustDecoderDeleter(d) ==
  IF d.mRustDecoder
    THEN Log([d EXCEPT !.mRustDecoder = FALSE],
             Ev("jxl_rust_decoder_free", "", 0, 0, 0, 0))
    ELSE d

(***************************************************************************)
(* The collaborators' answers to one invocation of ReadJXLData.            *)
(***************************************************************************)
Statuses == {"OK", "NEED_MORE_DATA", "INVALID_DATA", "ERROR", "UNKNOWN"}

DefaultEnv ==
  [appendOK |-> TRUE, status |-> "OK", infoStatus |-> "ERROR", info |-> <<1, 1>>,
   frameReady |-> FALSE, ub |-> None, pipeOK |-> TRUE, resizeOK |-> TRUE,
   decode |-> [c \in 0..MaxPixels |-> [status |-> "OK", pixelsWritten |-> 0]],
   failRow |-> 0, invalidRect |-> FALSE]

\* decode_frame answering the same whatever capacity it is given.
Answer(st, n) == [c \in 0..MaxPixels |-> [status |-> st, pixelsWritten |-> n]]

\* A requested output size is never larger than the image.
InfoSizes(d) ==
  IF d.hasSize THEN {<<1, 1>>}
  ELSE {sz \in Sizes : d.mOutputSize = None
                       \/ (d.mOutputSize[1] <= sz[1] /\ d.mOutputSize[2] <= sz[2])}

InfoEnvs(d) ==
  {DefaultEnv}
    \cup {[DefaultEnv EXCEPT !.infoStatus = "OK", !.info = sz] : sz \in InfoSizes(d)}

\* What OutputSize() does when no size is known (only then is it read).
UbChoices(d, b) ==
  IF d.hasSize \/ b.infoStatus = "OK" THEN {None}
  ELSE {None, <<1, 1>>, <<MaxDim, 1>>}

FrameEnvs(d, b) ==
  LET f == [b EXCEPT !.frameReady = TRUE]
  IN UNION {
       {[f EXCEPT !.ub = u, !.pipeOK = FALSE], [f EXCEPT !.ub = u, !.resizeOK = FALSE]}
         \cup {[f EXCEPT !.ub = u, !.decode = Answer("ERROR", n)] : n \in 0..MaxPixels}
         \cup {[f EXCEPT !.ub = u, !.decode = Answer("OK", n), !.failRow = r,
                         !.invalidRect = iv] :
                 n \in 0..MaxPixels, r \in 0..MaxDim, iv \in BOOLEAN}
       : u \in UbChoices(d, b)}

Envs(d) ==
  InfoEnvs(d)
    \cup UNION {FrameEnvs(d, b) : b \in InfoEnvs(d)}
    \cup {[DefaultEnv EXCEPT !.status = s] : s \in Statuses \ {"OK"}}
    \cup {[DefaultEnv EXCEPT !.status = "NEED_MORE_DATA", !.appendOK = FALSE]}

(***************************************************************************)
(* The source buffer and the lexer                                         *)
(***************************************************************************)
Min(a, b) == IF a < b THEN a ELSE b

\* Byte i of the stream is the number i, so a span shows which bytes it holds.
Chunk(from, n) == [i \in 1..n |-> from + i]

NoImage == [hdr |-> 0, frm |-> 0, bad |-> 0, size |-> <<1, 1>>, lazy |-> FALSE]
NoEngine == [pos |-> 0]

Init ==
  /\ \E meta \in BOOLEAN, req \in Sizes \cup {None} :
       /\ meta => req = None
       /\ drv = NewDecoder(meta, req)
  /\ pc = "idle"
  /\ written = 0
  /\ consumed = 0
  /\ complete = FALSE
  /\ total \in 0..MaxStream
  /\ img = NoImage
  /\ eng = NoEngine
  /\ px = None

\* AfterCallback of a lexer that keeps reading after a failure.
AfterCallbackIgnoresFailure(d) ==
  CASE d.transition \in {"continue", "failure"} -> "lex"
    [] d.transition = "abort" -> "aborted"
    [] OTHER -> "done"

\* Where control goes after a transition: on in the lexer, out of DoDecode
\* with a terminal result, or nowhere when the process died.
AfterCallback(d) ==
  CASE d.transition = "continue" -> "lex"
    [] d.transition = "abort" -> "aborted"
    [] OTHER -> "done"

\* The network delivers more bytes.
SourceAppend ==
  /\ pc # "destroyed"
  /\ ~complete
  /\ \E k \in 1..(total - written) : written' = written + k
  /\ UNCHANGED <<drv, pc, consumed, complete, total, img, eng, px>>

\* The network signals the end of the stream.
SourceComplete ==
  /\ pc # "destroyed"
  /\ ~complete
  /\ written = total
  /\ complete' = TRUE
  /\ UNCHANGED <<drv, pc, written, consumed, total, img, eng, px>>

\* Lines 38-49: DoDecode is entered (first call or resumption).
DoDecode ==
  /\ pc = "idle"
  /\ \E newOK \in BOOLEAN :
       /\ drv' = CreateEngine(drv, newOK)
       /\ pc' = AfterCallback(drv')
  /\ UNCHANGED <<written, consumed, complete, total, img, eng, px>>

\* Lines 51-60: the lexer hands the next chunk to the callback.
LexRead ==
  /\ pc = "lex"
  /\ consumed < written
  /\ IF BytesRemaining = 0
       THEN /\ drv' = LexCallback(drv, "FINISHED_JXL_DATA", <<>>, DefaultEnv)
            /\ consumed' = consumed
       ELSE \E n \in 1..Min(written - consumed, BytesRemaining), e \in Envs(drv) :
              /\ drv' = LexCallback(drv, "JXL_DATA", Chunk(consumed, n), e)
              /\ consumed' = consumed + n
  /\ pc' = AfterCallback(drv')
  /\ UNCHANGED <<written, complete, total, img, eng, px>>

\* Lines 51-60: no data is available yet; DoDecode returns to be resumed.
LexYield ==
  /\ pc = "lex"
  /\ consumed = written
  /\ ~complete
  /\ pc' = "idle"
  /\ UNCHANGED <<drv, written, consumed, complete, total, img, eng, px>>

\* Lines 29-31, 51: the source is complete and every byte was consumed; the
\* lexer takes the truncated transition.
LexTruncated ==
  /\ pc = "lex"
  /\ consumed = written
  /\ complete
  /\ drv' = Terminate(drv, TruncatedTransition)
  /\ pc' = "done"
  /\ UNCHANGED <<written, consumed, complete, total, img, eng, px>>

\* Lines 35-36: the driver is destroyed, outside of DoDecode.
Destroy ==
  /\ pc \in {"idle", "done"}
  /\ drv' = JxlRustDecoderDeleter(drv)
  /\ pc' = "destroyed"
  /\ UNCHANGED <<written, consumed, complete, total, img, eng, px>>

Next ==
  \/ SourceAppend
  \/ SourceComplete
  \/ DoDecode
  \/ LexRead
  \/ LexYield
  \/ LexTruncated
  \/ Destroy

Spec == Init /\ [][Next]_vars

\* The source delivers the whole stream and signals its end; DoDecode is
\* resumed while the session is not over, and the lexer runs while DoDecode
\* is on the stack.  Nothing obliges the owner to destroy the driver.
SpecFair ==
  /\ Spec
  /\ WF_vars(SourceAppend \/ SourceComplete)
  /\ WF_vars(DoDecode \/ LexRead \/ LexYield \/ LexTruncated)

(***************************************************************************)
(* SpecStream: the driver run against a deterministic engine parsing a     *)
(* given stream, so that two deliveries of the same bytes can be compared. *)
(*                                                                         *)
(* The encoded image img has its header in bytes 1..hdr and its frame      *)
(* ending at byte frm; byte bad (0: none) is corrupt.  The engine holds    *)
(* the count pos of bytes it has consumed.  process consumes its span when *)
(* it answers OK and nothing when it answers NEED_MORE_DATA; a span that   *)
(* does not continue the stream at pos is malformed input.  With lazy set  *)
(* the engine asks for the whole rest of the frame at once.                *)
(***************************************************************************)
Images ==
  {im \in [hdr : 1..MaxStream, frm : 1..(MaxStream + 1), bad : 0..MaxStream,
           size : Sizes, lazy : BOOLEAN] :
     im.hdr <= im.frm /\ im.bad <= im.frm}

StreamProcess(im, en, span) ==
  LET end == en.pos + Len(span)
  IN IF span # Chunk(en.pos, Len(span)) \/ im.bad \in (en.pos + 1)..end
       THEN [status |-> "INVALID_DATA", eng |-> en]
     ELSE IF en.pos < im.hdr /\ end < im.hdr
       THEN [status |-> "NEED_MORE_DATA", eng |-> en]
     ELSE IF im.lazy /\ en.pos >= im.hdr /\ end < im.frm
       THEN [status |-> "NEED_MORE_DATA", eng |-> en]
     ELSE [status |-> "OK", eng |-> [pos |-> end]]

\* decode_frame writes the whole frame when the buffer can hold it.
StreamDecodeFrame(im) ==
  [c \in 0..MaxPixels |->
     IF c >= im.size[1] * im.size[2]
       THEN [status |-> "OK", pixelsWritten |-> im.size[1] * im.size[2]]
       ELSE [status |-> "ERROR", pixelsWritten |-> 0]]

\* The answers the collaborators give to ReadJXLData(d, aData): the engine
\* parses the stream, allocations and the surface pipe succeed.
StreamEnv(im, en, d, aData) ==
  LET r == StreamProcess(im, en, InputSpan(d, aData))
  IN [DefaultEnv EXCEPT
        !.status = r.status,
        !.infoStatus = IF r.eng.pos >= im.hdr THEN "OK" ELSE "ERROR",
        !.info = im.size,
        !.frameReady = r.eng.pos >= im.frm,
        !.decode = StreamDecodeFrame(im),
        !.invalidRect = TRUE]

InitStream ==
  /\ total \in 1..MaxStream
  /\ img \in {im \in Images : im.hdr <= total /\ im.bad <= total}
  /\ \E meta \in BOOLEAN, req \in Sizes \cup {None} :
       /\ meta => req = None
       /\ req # None => (req[1] <= img.size[1] /\ req[2] <= img.size[2])
       /\ drv = NewDecoder(meta, req)
  /\ pc = "idle"
  /\ written = 0
  /\ consumed = 0
  /\ complete = FALSE
  /\ eng = NoEngine
  /\ px = None

StreamDoDecode ==
  /\ pc = "idle"
  /\ drv' = CreateEngine(drv, TRUE)
  /\ pc' = AfterCallback(drv')
  /\ UNCHANGED <<written, consumed, complete, total, img, eng, px>>

StreamLexRead ==
  /\ pc = "lex"
  /\ consumed < written
  /\ \E n \in 1..Min(written - consumed, BytesRemaining) :
       LET aData == Chunk(consumed, n)
       IN /\ drv' = LexCallback(drv, "JXL_DATA", aData, StreamEnv(img, eng, drv, aData))
          /\ eng' = StreamProcess(img, eng, InputSpan(drv, aData)).eng
          /\ consumed' = consumed + n
  /\ pc' = AfterCallback(drv')
  /\ UNCHANGED <<written, complete, total, img, px>>

NextStream ==
  \/ SourceAppend
  \/ SourceComplete
  \/ StreamDoDecode
  \/ StreamLexRead
  \/ LexYield
  \/ LexTruncated

SpecStream == InitStream /\ [][NextStream]_vars

(***************************************************************************)
(* The sizing of the pixel buffer for sizes of the full int32_t range:     *)
(* ReadJXLData taken up at line 100, the size announced and the frame      *)
(* ready.                                                                  *)
(***************************************************************************)
Dims32 == {1, 2, 3, 255, 256, 46340, 46341, 65535, 65536, 2147483647}

InitPixels ==
  /\ \E w \in Dims32, h \in Dims32 :
       drv = [NewDecoder(FALSE, None) EXCEPT
                !.mRustDecoder = TRUE, !.mSize = <<w, h>>,
                !.hasSize = TRUE, !.mOutputSize = <<w, h>>]
  /\ pc = "frame"
  /\ written = 0
  /\ consumed = 0
  /\ complete = FALSE
  /\ total = 0
  /\ img = NoImage
  /\ eng = NoEngine
  /\ px = None

\* A 64-bit number is smaller than another.
RECURSIVE LessBytes(_, _, _)
LessBytes(a, b, i) ==
  IF i = 0 THEN FALSE
  ELSE IF a[i] # b[i] THEN a[i] < b[i]
  ELSE LessBytes(a, b, i - 1)

\* Lines 138-145: where the last row read by the loop ends, in pixels from
\* the start of the buffer: height steps of width, in pointer arithmetic.
RowsEnd(outputSize) == ExactProduct(outputSize[1], outputSize[2])

\* Lines 102-124: the output size is read and the pixel buffer is sized.
SizePixelBuffer ==
  /\ pc = "frame"
  /\ \E wide \in BOOLEAN :
       LET outputSize == OutputSize(drv, DefaultEnv)
       IN px' = [size |-> outputSize,
                 count |-> PixelCountBytes(outputSize, wide),
                 rowsEnd |-> None]
  /\ pc' = "sized"
  /\ UNCHANGED <<drv, written, consumed, complete, total, img, eng>>

\* Lines 127-145: decode_frame reported pixelCount pixels written and the
\* row loop reads the buffer.  A buffer of 2^63 pixels or more is never
\* allocated.
ReadRows ==
  /\ pc = "sized"
  /\ px.count[8] < 128
  /\ px' = [px EXCEPT !.rowsEnd = RowsEnd(px.size)]
  /\ pc' = "rows"
  /\ UNCHANGED <<drv, written, consumed, complete, total, img, eng>>

NextPixels ==
  \/ SizePixelBuffer
  \/ ReadRows

SpecPixels == InitPixels /\ [][NextPixels]_vars

\* The same stream delivered to a fresh driver as one chunk.
SingleChunkRun ==
  LET d0 == CreateEngine(NewDecoder(drv.metadataDecode, drv.mOutputSize), TRUE)
      whole == Chunk(0, total)
      d1 == ReadJXLData(d0, whole, StreamEnv(img, NoEngine, d0, whole))
  IN IF d1.transition = "continue" THEN Terminate(d1, TruncatedTransition) ELSE d1

(***************************************************************************)
(* Reading the log                                                         *)
(***************************************************************************)
Count(d, op) == Cardinality({i \in DOMAIN d.trace : d.trace[i].op = op})

Has(d, op) == \E i \in DOMAIN d.trace : d.trace[i].op = op

OutputOps ==
  {"PostSize", "WriteBuffer", "PostInvalidation", "PostFrameStop", "PostDecodeDone"}

IsOutput(ev) == ev.op \in OutputOps

\* What the output collaborator saw, in order.
OutputEvents(d) == SelectSeq(d.trace, IsOutput)

SameOutcome(a, b) ==
  OutputEvents(a) = OutputEvents(b) /\ a.transition = b.transition

\* Constructing the sink, extracting the frame, writing a row.
SinkOps == {"CreateSurfacePipe", "decode_frame", "WriteBuffer"}

EngineOps == {"process", "get_info", "is_frame_ready", "decode_frame"}

FailureStatuses == Statuses \ {"OK", "NEED_MORE_DATA"}

FullPixels(d) == d.mSize[1] * d.mSize[2]

\* The session was asked for fewer pixels than the image has.
Downscale(d) == d.hasSize /\ d.mOutputSize # d.mSize

(***************************************************************************)
(* C1                                                                      *)
(***************************************************************************)

EndedBeforeTermination ==
  /\ pc = "done"
  /\ complete /\ consumed = total
  /\ Len(drv.trace) > 0
  /\ LET last == drv.trace[Len(drv.trace)]
     IN \/ last.op = "process" /\ last.s = "NEED_MORE_DATA"
        \/ last.op = "is_frame_ready" /\ last.n1 = 0

\* C2: when the input ends before the driver has terminated, the session
\* result is terminate-failure.
C2_EndOfInputIsFailure ==
  EndedBeforeTermination => drv.transition = "failure"

(***************************************************************************)
(* C3                                                                      *)
(***************************************************************************)

\* C3: a metadata-only session never constructs the sink, never calls
\* decode_frame and never writes a row, whatever the engine answers.
C3_MetadataNeverExtracts ==
  drv.metadataDecode => \A i \in DOMAIN drv.trace : drv.trace[i].op \notin SinkOps

(***************************************************************************)
(* C4                                                                      *)
(***************************************************************************)

\* C4: in a downscaling session the sink takes the full size as input and
\* the requested size as output, the pixel buffer and decode_frame's
\* capacity are fullWidth x fullHeight, every row written is fullWidth wide,
\* and a successful decode has written fullHeight rows.
C4_DownscaleDecodesFullSize ==
  Downscale(drv) =>
    /\ \A i \in DOMAIN drv.trace :
         LET ev == drv.trace[i]
         IN /\ ev.op = "CreateSurfacePipe" =>
                 /\ <<ev.n1, ev.n2>> = drv.mSize
                 /\ <<ev.n3, ev.n4>> = drv.mOutputSize
            /\ ev.op \in {"resize", "decode_frame"} => ev.n1 = FullPixels(drv)
            /\ ev.op = "WriteBuffer" => ev.n3 = drv.mSize[1]
    /\ Has(drv, "PostDecodeDone") => Count(drv, "WriteBuffer") = drv.mSize[2]

(***************************************************************************)
(* C5                                                                      *)
(***************************************************************************)
MetadataOnlySuccess(d) ==
  /\ d.metadataDecode
  /\ Count(d, "PostSize") = 1
  /\ Count(d, "WriteBuffer") = 0

FullDecodeSuccess(d) ==
  /\ Count(d, "PostSize") = 1
  /\ Count(d, "WriteBuffer") = d.mSize[2]
  /\ \A i \in DOMAIN d.trace : d.trace[i].op = "WriteBuffer" => d.trace[i].s = "OK"
  /\ Count(d, "PostFrameStop") = 1
  /\ Count(d, "PostDecodeDone") = 1

\* C5: a session that ends in terminate-success is either a metadata-only
\* session that announced the size and wrote no row, or one that announced
\* the size, wrote all height rows and reported frame-complete and
\* decode-complete.
C5_NoPartialSuccess ==
  drv.transition = "success" => MetadataOnlySuccess(drv) \/ FullDecodeSuccess(drv)

(***************************************************************************)
(* C6                                                                      *)
(***************************************************************************)

\* C6: the size is announced at most once in a session.
C6_SizePostedAtMostOnce == Count(drv, "PostSize") <= 1

\* The size was announced, and later process calls returned OK with the
\* info available again.
C6_Witness ==
  /\ Count(drv, "PostSize") = 1
  /\ \E i, j, k \in DOMAIN drv.trace :
       /\ i < j /\ j < k
       /\ drv.trace[i].op = "PostSize"
       /\ drv.trace[j].op = "get_info" /\ drv.trace[j].s = "OK"
       /\ drv.trace[k].op = "get_info" /\ drv.trace[k].s = "OK"

(***************************************************************************)
(* C7                                                                      *)
(***************************************************************************)

\* C7: a process call answering INVALID_DATA, ERROR or an unknown status
\* ends the session in terminate-failure, and nothing follows it in the log
\* but the release of the engine at teardown.
C7_FailureStatusIsTerminal ==
  \A i \in DOMAIN drv.trace :
    (drv.trace[i].op = "process" /\ drv.trace[i].s \in FailureStatuses) =>
      /\ drv.transition = "failure"
      /\ \A j \in (i + 1)..Len(drv.trace) : drv.trace[j].op = "jxl_rust_decoder_free"

\* process answered an unknown status late in a session that had already
\* announced the size and was accumulating chunks.
C7_Witness ==
  /\ pc = "done"
  /\ Has(drv, "PostSize")
  /\ Len(drv.mBuffer) > 0
  /\ LET last == drv.trace[Len(drv.trace)]
     IN last.op = "process" /\ last.s = "UNKNOWN"

(***************************************************************************)
(* C8                                                                      *)
(***************************************************************************)

\* C8: when decode_frame answers a status other than OK, or a pixelsWritten
\* other than width x height of the image, the session ends in
\* terminate-failure with no row written and nothing reported.
C8_BadFrameIsFailure ==
  \A i \in DOMAIN drv.trace :
    LET ev == drv.trace[i]
    IN (/\ ev.op = "decode_frame"
        /\ drv.hasSize
        /\ (ev.s # "OK" \/ ev.n2 # FullPixels(drv))) =>
         /\ drv.transition = "failure"
         /\ ~Has(drv, "WriteBuffer")
         /\ ~Has(drv, "PostInvalidation")
         /\ ~Has(drv, "PostFrameStop")
         /\ ~Has(drv, "PostDecodeDone")

(***************************************************************************)
(* C9                                                                      *)
(***************************************************************************)
ExpectedRows(w, h) ==
  [y \in 1..h |-> Ev("WriteBuffer", "OK", y - 1, (y - 1) * w, w, 0)]

\* C9: a full-decode success (of a session that knows the image size) shows
\* the output collaborator one size announcement, then height rows of width
\* pixels from top to bottom (row y taken at offset y * width), then at most
\* one invalidation, then frame-complete and decode-complete, and nothing
\* else.
C9_OutputOrder ==
  (drv.transition = "success" /\ Has(drv, "PostDecodeDone") /\ drv.hasSize) =>
    LET w == drv.mSize[1]
        h == drv.mSize[2]
        head == <<Ev("PostSize", "", w, h, 0, 0)>> \o ExpectedRows(w, h)
        tail == <<Ev("PostFrameStop", "", 0, 0, 0, 0), Ev("PostDecodeDone", "", 0, 0, 0, 0)>>
    IN \/ OutputEvents(drv) = head \o tail
       \/ OutputEvents(drv) = head \o <<Ev("PostInvalidation", "", 0, 0, 0, 0)>> \o tail

(***************************************************************************)
(* C10                                                                     *)
(***************************************************************************)
Created(d) ==
  Cardinality({i \in DOMAIN d.trace :
                 d.trace[i].op = "jxl_rust_decoder_new" /\ d.trace[i].n1 = 1})

Freed(d) == Count(d, "jxl_rust_decoder_free")

\* The handle is live at position i of the log: created before, not freed.
LiveAt(d, i) ==
  /\ \E j \in 1..(i - 1) : d.trace[j].op = "jxl_rust_decoder_new" /\ d.trace[j].n1 = 1
  /\ \A j \in 1..(i - 1) : d.trace[j].op # "jxl_rust_decoder_free"

\* C10: the engine handle is created at most once, every engine call is
\* made on a live handle, nothing is freed before teardown, and after
\* teardown the handle that was created has been freed exactly once.
C10_HandleLifecycle ==
  /\ Created(drv) <= 1
  /\ \A i \in DOMAIN drv.trace : drv.trace[i].op \in EngineOps => LiveAt(drv, i)
  /\ drv.mRustDecoder <=> (Created(drv) = 1 /\ Freed(drv) = 0)
  /\ pc # "destroyed" => Freed(drv) = 0
  /\ pc = "destroyed" => Freed(drv) = Created(drv)

\* A session resumed over several chunks, ended, torn down: one handle
\* created and freed.
C10_Witness ==
  /\ pc = "destroyed"
  /\ Created(drv) = 1 /\ Freed(drv) = 1
  /\ Count(drv, "process") >= 2
  /\ drv.transition \in {"success", "failure"}

(***************************************************************************)
(* C11                                                                     *)
(***************************************************************************)

\* The last position before i of the log at which process answered OK
\* (0: none).
RECURSIVE LastOKBefore(_, _)
LastOKBefore(d, i) ==
  IF i <= 1 THEN 0
  ELSE IF d.trace[i - 1].op = "process" /\ d.trace[i - 1].s = "OK" THEN i - 1
  ELSE LastOKBefore(d, i - 1)

\* The chunks delivered to ReadJXLData between positions lo and hi of the
\* log (both excluded), concatenated in delivery order.
RECURSIVE ChunksBetween(_, _, _)
ChunksBetween(d, lo, hi) ==
  IF hi - 1 <= lo THEN <<>>
  ELSE ChunksBetween(d, lo, hi - 1)
         \o (IF d.trace[hi - 1].op = "ReadJXLData" THEN d.trace[hi - 1].span ELSE <<>>)

IsPrefix(a, b) == Len(a) <= Len(b) /\ SubSeq(b, 1, Len(a)) = a

\* The process call before position i of the log (0: none).
RECURSIVE LastProcessBefore(_, _)
LastProcessBefore(d, i) ==
  IF i <= 1 THEN 0
  ELSE IF d.trace[i - 1].op = "process" THEN i - 1
  ELSE LastProcessBefore(d, i - 1)

\* C11: the span of every process call is the concatenation, in delivery
\* order, of the chunks delivered since the last process call that answered
\* OK (or since the start); and a span that follows a NEED_MORE_DATA answer
\* has the span before it as a prefix.
C11_ReassemblySpan ==
  \A i \in DOMAIN drv.trace :
    drv.trace[i].op = "process" =>
      /\ drv.trace[i].span = ChunksBetween(drv, LastOKBefore(drv, i), i)
      /\ LET p == LastProcessBefore(drv, i)
         IN (p # 0 /\ drv.trace[p].s = "NEED_MORE_DATA") =>
              IsPrefix(drv.trace[p].span, drv.trace[i].span)

\* Two chunks were accumulated into one span, process answered OK on it, and
\* the next span is the third chunk alone.
C11_Witness ==
  \E i, j, k \in DOMAIN drv.trace :
    /\ i < j /\ j < k
    /\ drv.trace[i].op = "process" /\ drv.trace[i].s = "NEED_MORE_DATA"
    /\ drv.trace[i].span = <<1>>
    /\ drv.trace[j].op = "process" /\ drv.trace[j].s = "OK"
    /\ drv.trace[j].span = <<1, 2>>
    /\ drv.trace[k].op = "process" /\ drv.trace[k].span = <<3>>

(***************************************************************************)
(* C12                                                                     *)
(***************************************************************************)

\* The answer of the most recent process call ("": none yet).
LastStatus(d) ==
  LET p == LastProcessBefore(d, Len(d.trace) + 1)
  IN IF p = 0 THEN "" ELSE d.trace[p].s

\* C12: while the session continues, mBuffer is non-empty only if the most
\* recent process call answered NEED_MORE_DATA; after a call that answered
\* OK and continued it is empty; and a chunk that was processed with an
\* empty mBuffer and answered OK is never copied into it.
C12_BufferOnlyWhileReassembling ==
  /\ drv.transition = "continue" =>
       /\ Len(drv.mBuffer) > 0 => LastStatus(drv) = "NEED_MORE_DATA"
       /\ LastStatus(drv) = "OK" => drv.mBuffer = <<>>
  /\ LET p == LastProcessBefore(drv, Len(drv.trace) + 1)
     IN (p # 0 /\ drv.trace[p].s = "OK" /\ drv.trace[p].span = drv.trace[p - 1].span)
          => drv.mBuffer = <<>>

\* The session continues after process answered OK on an accumulated span:
\* the buffer that was in use is empty again.
C12_Witness ==
  /\ drv.transition = "continue"
  /\ pc = "lex"
  /\ drv.mBuffer = <<>>
  /\ LET p == LastProcessBefore(drv, Len(drv.trace) + 1)
     IN /\ p # 0
        /\ drv.trace[p].s = "OK"
        /\ drv.trace[p].span = <<1, 2>>
        /\ drv.trace[p - 1].span = <<2>>

(***************************************************************************)
(* C13                                                                     *)
(***************************************************************************)

\* C13: the sink is constructed, decode_frame is called and rows are
\* written only after the size has been announced.
C13_ExtractionAfterSize ==
  \A i \in DOMAIN drv.trace :
    drv.trace[i].op \in SinkOps =>
      \E j \in 1..(i - 1) : drv.trace[j].op = "PostSize"

(***************************************************************************)
(* C14                                                                     *)
(***************************************************************************)
FrameReadyReported(d) ==
  \E i \in DOMAIN d.trace : d.trace[i].op = "is_frame_ready" /\ d.trace[i].n1 = 1

\* Rows the sink accepted.
RowsWritten(d) ==
  Cardinality({i \in DOMAIN d.trace :
                 d.trace[i].op = "WriteBuffer" /\ d.trace[i].s = "OK"})

\* Every row of the frame went into the sink: as many as the height the
\* row loop ran over.
AllRowsWritten(d) ==
  \E i \in DOMAIN d.trace :
    /\ d.trace[i].op = "OutputSize" /\ d.trace[i].s = ""
    /\ RowsWritten(d) = d.trace[i].n2

SizeAndFrameTogether(d, i) ==
  /\ d.trace[i].op = "PostSize"
  /\ i + 1 <= Len(d.trace)
  /\ d.trace[i + 1].op = "is_frame_ready" /\ d.trace[i + 1].n1 = 1

\* C15: in a full decode, when one invocation both learns the size and finds
\* the frame ready, that invocation announces the size, then goes through
\* the frame extraction and terminates: no later chunk is handed to
\* ReadJXLData.
C15_SizeAndFrameInOneInvocation ==
  ~drv.metadataDecode =>
    \A i \in DOMAIN drv.trace :
      SizeAndFrameTogether(drv, i) =>
        /\ i + 3 <= Len(drv.trace)
        /\ drv.trace[i + 2].op = "OutputSize" /\ drv.trace[i + 2].s = ""
        /\ drv.trace[i + 3].op = "CreateSurfacePipe"
        /\ \A j \in (i + 1)..Len(drv.trace) : drv.trace[j].op # "ReadJXLData"
        /\ drv.transition \in {"success", "failure"}
        /\ drv.transition = "success" =>
             AllRowsWritten(drv) /\ Has(drv, "PostDecodeDone")

\* The first chunk of a longer stream gave the size and the whole frame.
C15_Witness ==
  /\ ~drv.metadataDecode
  /\ \E i \in DOMAIN drv.trace : SizeAndFrameTogether(drv, i)
  /\ Count(drv, "ReadJXLData") = 1
  /\ drv.transition = "success"
  /\ Has(drv, "PostDecodeDone")
  /\ consumed < total

(***************************************************************************)
(* C16                                                                     *)
(***************************************************************************)
AfterRowsOps == {"TakeInvalidRect", "PostInvalidation", "PostFrameStop", "PostDecodeDone"}

\* C16: a failed row write is the last thing the session does before the
\* engine is released at teardown: the invocation terminates with failure, no later row is written, the
\* invalidated region is neither queried nor reported, and neither
\* frame-complete nor decode-complete is emitted.  The rows before the
\* failed one were written in order.
C16_RowFailureIsTerminal ==
  \A i \in DOMAIN drv.trace :
    (drv.trace[i].op = "WriteBuffer" /\ drv.trace[i].s = "FAILURE") =>
      /\ \A j \in (i + 1)..Len(drv.trace) :
           drv.trace[j].op = "jxl_rust_decoder_free"
      /\ drv.transition = "failure"
      /\ \A j \in DOMAIN drv.trace : drv.trace[j].op \notin AfterRowsOps
      /\ RowsWritten(drv) = drv.trace[i].n1

\* The second of two rows failed after the first was written.
C16_Witness ==
  /\ Len(drv.trace) > 0
  /\ drv.trace[Len(drv.trace)].op = "WriteBuffer"
  /\ drv.trace[Len(drv.trace)].s = "FAILURE"
  /\ drv.trace[Len(drv.trace)].n1 = 1
  /\ \E i \in DOMAIN drv.trace : drv.trace[i].op = "OutputSize" /\ drv.trace[i].n2 = 2

(***************************************************************************)
(* C17                                                                     *)
(***************************************************************************)
\* The event records an allocation that failed: the engine, the buffered
\* input, the sink or the pixel buffer.
Exhausted(ev) ==
  \/ ev.op = "jxl_rust_decoder_new" /\ ev.n1 = 0
  \/ ev.op \in {"append", "CreateSurfacePipe", "resize"} /\ ev.s = "FAILURE"

\* C17: a failed allocation ends the session with failure in the same
\* invocation: nothing follows it in the session but the release of the
\* engine at teardown, so no process, get_info, is_frame_ready or
\* decode_frame, no row write and no completion event; no decode_frame
\* follows a failed sink construction or pixel-buffer allocation.
C17_ExhaustionIsTerminal ==
  \A i \in DOMAIN drv.trace :
    Exhausted(drv.trace[i]) =>
      /\ drv.transition = "failure"
      /\ pc \in {"done", "destroyed"}
      /\ \A j \in (i + 1)..Len(drv.trace) :
           drv.trace[j].op = "jxl_rust_decoder_free"
      /\ drv.trace[i].op = "jxl_rust_decoder_new" => Len(drv.trace) = 1

\* Each of the five failed allocations happens.
C17_WitnessEngine ==
  Len(drv.trace) = 1 /\ Exhausted(drv.trace[1]) /\ pc = "destroyed"

C17_WitnessAppendReassembly ==
  \E i \in DOMAIN drv.trace :
    /\ drv.trace[i].op = "append" /\ drv.trace[i - 1].op = "ReadJXLData"
    /\ drv.mBuffer # <<>>

C17_WitnessAppendFirst ==
  \E i \in DOMAIN drv.trace :
    /\ drv.trace[i].op = "append" /\ drv.trace[i - 1].op = "process"
    /\ drv.mBuffer = <<>>

C17_WitnessPipe ==
  \E i \in DOMAIN drv.trace :
    drv.trace[i].op = "CreateSurfacePipe" /\ Exhausted(drv.trace[i])

C17_Witness ==
  /\ \E i \in DOMAIN drv.trace :
       drv.trace[i].op = "resize" /\ Exhausted(drv.trace[i])
  /\ pc = "destroyed"
  /\ drv.trace[Len(drv.trace)].op = "jxl_rust_decoder_free"

TerminalResults == {"success", "failure"}

\* The session is over: DoDecode returned a terminal result, the process
\* died in OutputSize(), or the owner destroyed the driver.
SessionOver == pc \in {"done", "aborted", "destroyed"}

\* Nothing is logged but the release of the engine.
OnlyFreed ==
  \/ drv'.trace = drv.trace
  \/ drv'.trace = Append(drv.trace, Ev("jxl_rust_decoder_free", "", 0, 0, 0, 0))

C20_PixelCountIsProduct ==
  pc = "rows" =>
    /\ px.count = ExactProduct(px.size[1], px.size[2])
    /\ ~LessBytes(px.count, px.rowsEnd, 8)

====
